---- MODULE Spec2Model ----
(***************************************************************************)
(* Model of src/src/generate-report.ts: the GenerateCtrfReport reporter.   *)
(* The host (Playwright) constructs the reporter, calls onBegin with the   *)
(* root suite and, after the run, onEnd.  onEnd walks the suite tree,      *)
(* appends one CTRF test record per test case, updates the summary, counts *)
(* the suites and writes the report with one writeFileSync call.           *)
(*                                                                         *)
(* JavaScript values: `undefined` and `null` are the strings JsUndefined   *)
(* and JsNull; an object is a function whose DOMAIN is its set of keys, so *)
(* "key absent" and "key present with value undefined" are different.      *)
(***************************************************************************)
EXTENDS Integers, Sequences, FiniteSets, TLC

(* ------------------------------ bounds --------------------------------- *)

\* nested (non-root) suites in a suite tree
MaxNested == 2
\* test cases in a suite tree
MaxTests == 2
\* attachments carried by one attempt
MaxAttachments == 2
\* largest retry index the host reports on an attempt
MaxRetry == 1

(* --------------------------- JavaScript values ------------------------- *)

JsUndefined == "<undefined>"
JsNull == "<null>"

\* `${v}`: how a template literal renders a value
TemplateString(v) ==
  IF v = JsUndefined THEN "undefined" ELSE IF v = JsNull THEN "null" ELSE v

\* Array.prototype.join(sep)
RECURSIVE Join(_, _)
Join(parts, sep) ==
  IF Len(parts) = 0 THEN ""
  ELSE IF Len(parts) = 1 THEN parts[1]
  ELSE parts[1] \o sep \o Join(Tail(parts), sep)

\* Array.prototype.find, given for each element whether the callback accepts
\* it: the index of the first accepted element, 0 if there is none
FindIndex(accepted) ==
  IF \E i \in 1..Len(accepted) : accepted[i]
  THEN CHOOSE i \in 1..Len(accepted) :
         /\ accepted[i]
         /\ \A j \in 1..(i - 1) : ~accepted[j]
  ELSE 0

Base64Alphabet ==
  << "A","B","C","D","E","F","G","H","I","J","K","L","M","N","O","P",
     "Q","R","S","T","U","V","W","X","Y","Z","a","b","c","d","e","f",
     "g","h","i","j","k","l","m","n","o","p","q","r","s","t","u","v",
     "w","x","y","z","0","1","2","3","4","5","6","7","8","9","+","/" >>

Base64Char(n) == Base64Alphabet[n + 1]

\* Buffer.prototype.toString('base64') on a sequence of bytes
RECURSIVE Base64(_)
Base64(bytes) ==
  IF Len(bytes) = 0 THEN ""
  ELSE IF Len(bytes) = 1 THEN
    Base64Char(bytes[1] \div 4) \o Base64Char((bytes[1] % 4) * 16) \o "=="
  ELSE IF Len(bytes) = 2 THEN
    Base64Char(bytes[1] \div 4)
      \o Base64Char((bytes[1] % 4) * 16 + bytes[2] \div 16)
      \o Base64Char((bytes[2] % 16) * 4) \o "="
  ELSE
    Base64Char(bytes[1] \div 4)
      \o Base64Char((bytes[1] % 4) * 16 + bytes[2] \div 16)
      \o Base64Char((bytes[2] % 16) * 4 + bytes[3] \div 64)
      \o Base64Char(bytes[3] % 64)
      \o Base64(SubSeq(bytes, 4, Len(bytes)))

(* --------------------------- host data: buffers ------------------------ *)

\* A Buffer is its raw bytes together with their UTF-8 decoding.
PngBytes == << 137, 80, 78, 71 >>
JpegBytes == << 255, 216, 255 >>
TextBytes == << 104, 105 >>
NoBuffer == [bytes |-> << >>, text |-> ""]

MetaFull == "{\"name\":\"chromium\",\"version\":\"119.0\"}"
MetaNameOnly == "{\"name\":\"chromium\"}"
MetaVersionOnly == "{\"version\":\"119.0\"}"
MetaNullFields == "{\"name\":null,\"version\":null}"
MetaMalformed == "{\"name\":"

\* JSON.parse on the metadata bodies the host attaches: `threw` for a
\* SyntaxError, otherwise the name and version properties of the value
\* (JsUndefined for a missing property).
JSONParse(text) ==
  CASE text = MetaFull ->
         [threw |-> FALSE, name |-> "chromium", version |-> "119.0"]
    [] text = MetaNameOnly ->
         [threw |-> FALSE, name |-> "chromium", version |-> JsUndefined]
    [] text = MetaVersionOnly ->
         [threw |-> FALSE, name |-> JsUndefined, version |-> "119.0"]
    [] text = MetaNullFields ->
         [threw |-> FALSE, name |-> JsNull, version |-> JsNull]
    [] OTHER ->
         [threw |-> TRUE, name |-> JsUndefined, version |-> JsUndefined]

(* ------------------------ host data: attachments ----------------------- *)

Attachment(name, contentType, hasBody, body) ==
  [name |-> name, contentType |-> contentType, hasBody |-> hasBody,
   body |-> body]

Screenshot(contentType, bytes) ==
  Attachment("screenshot", contentType, TRUE, [bytes |-> bytes, text |-> ""])

Metadata(text) ==
  Attachment("metadata.json", "application/json", TRUE,
             [bytes |-> << >>, text |-> text])

\* an attachment stored by path has no body
Attachments ==
  { Screenshot("image/png", PngBytes),
    Screenshot("image/jpeg", JpegBytes),
    Screenshot("text/plain", TextBytes),
    Attachment("screenshot", "image/png", FALSE, NoBuffer),
    Metadata(MetaFull),
    Metadata(MetaNameOnly),
    Metadata(MetaVersionOnly),
    Metadata(MetaNullFields),
    Metadata(MetaMalformed),
    Attachment("metadata.json", "application/json", FALSE, NoBuffer) }

AttachmentLists ==
  UNION { [1..n -> Attachments] : n \in 0..MaxAttachments }

(* ------------------------- host data: attempts ------------------------- *)

\* TestResult.status as the host reports it; "flaky" stands for a status
\* string outside the reporter's switch
HostStatuses ==
  { "passed", "failed", "timedOut", "interrupted", "skipped", "pending",
    "flaky" }

NoError == [message |-> JsUndefined, stack |-> JsUndefined]

TestErrors ==
  { [message |-> "expected true, got false", stack |-> "at spec.ts:3:7"],
    [message |-> "expected true, got false", stack |-> JsUndefined],
    [message |-> JsUndefined, stack |-> "at spec.ts:3:7"] }

\* a TestResult: startTime and duration are epoch milliseconds
TestResult(status, retry, hasError, error, attachments) ==
  [status |-> status, retry |-> retry, startTime |-> 2999 + retry * 2000,
   duration |-> 1500, hasError |-> hasError, error |-> error,
   attachments |-> attachments]

StatusResults ==
  { TestResult(st, r, FALSE, NoError, << >>) :
      st \in HostStatuses, r \in 0..MaxRetry }

ErrorResults ==
  { TestResult(st, 0, TRUE, e, << >>) :
      st \in {"passed", "failed", "timedOut", "interrupted"},
      e \in TestErrors }

AttachmentResults ==
  { TestResult("passed", 0, FALSE, NoError, as) : as \in AttachmentLists }

LastResults == StatusResults \cup ErrorResults \cup AttachmentResults

\* attempts that a later attempt supersedes
EarlierResults ==
  { TestResult("failed", 0, TRUE,
               [message |-> "first attempt", stack |-> "at spec.ts:1:1"],
               << Screenshot("image/jpeg", JpegBytes), Metadata(MetaFull) >>),
    TestResult("passed", 0, FALSE, NoError, << >>) }

\* TestCase.results: empty for a test the host never started
ResultLists ==
  { << >> } \cup { << r >> : r \in LastResults }
    \cup { << e, r >> : e \in EarlierResults, r \in LastResults }

SimpleResultLists ==
  { << >> } \cup { << TestResult(st, 0, FALSE, NoError, << >>) >> :
                     st \in HostStatuses }

(* ------------------------ host data: suite trees ----------------------- *)

\* A suite tree: suites[1] is the root (parent 0 = undefined), every other
\* suite's parent has a smaller index, and the children of a suite (its
\* `suites` array) and its own test cases (its `tests` array) are in index
\* order.
NoParent == 0

SuiteTitles == { "", "A", "B" }

TestTitle(i) ==
  IF i = 1 THEN "login works @smoke @auth" ELSE "test " \o ToString(i)

TestCase(i, parent, results) ==
  [title |-> TestTitle(i), parent |-> parent, file |-> "tests/a.spec.ts",
   results |-> results]

SuiteForests(k) ==
  { [i \in 1..k |-> [title |-> titles[i], parent |-> parents[i]]] :
      titles \in [1..k -> SuiteTitles],
      parents \in { p \in [1..k -> 0..(k - 1)] :
                      /\ p[1] = NoParent
                      /\ \A i \in 2..k : p[i] \in 1..(i - 1) } }

PassedOnce == << TestResult("passed", 0, FALSE, NoError, << >>) >>

\* every tree shape and title, with one test case, run once, in any suite
ShapeTrees ==
  UNION { { [suites |-> ss, tests |-> << TestCase(1, place, PassedOnce) >>] :
              ss \in SuiteForests(k), place \in 1..k } :
          k \in 1..(MaxNested + 1) }

RootOnly == << [title |-> "", parent |-> NoParent] >>

\* one test case under the root with every list of attempts
ResultTrees ==
  { [suites |-> RootOnly, tests |-> << TestCase(1, 1, rs) >>] :
      rs \in ResultLists }

RootAndChild == << [title |-> "", parent |-> NoParent],
                   [title |-> "A", parent |-> 1] >>

\* up to MaxTests test cases spread over a root and a nested suite, each
\* never started or run once with any status
CountTrees ==
  UNION { { [suites |-> RootAndChild,
             tests |-> [i \in 1..n |-> TestCase(i, place[i], rs[i])]] :
              place \in [1..n -> 1..2], rs \in [1..n -> SimpleResultLists] } :
          n \in 0..MaxTests }

SuiteTrees == ShapeTrees \cup ResultTrees \cup CountTrees

(* ------------------------- reporter: constructor ----------------------- *)

\* `config?.key ?? fallback`
Option(config, key, fallback) ==
  IF key \in DOMAIN config THEN config[key] ELSE fallback

\* the option objects the host passes to the constructor
UserConfigs ==
  { [minimal |-> m, screenshot |-> s] : m \in BOOLEAN, s \in BOOLEAN }
    \cup { [minimal |-> m, screenshot |-> s, testType |-> "unit"] :
             m \in BOOLEAN, s \in BOOLEAN }
    \cup { [outputFile |-> "custom", outputDir |-> "out"],
           [appName |-> "MyApp", buildNumber |-> "100"] }

EnvironmentKeys ==
  << "appName", "appVersion", "osPlatform", "osRelease", "osVersion",
     "buildName", "buildNumber" >>

Constructor(config) ==
  [outputFile |-> Option(config, "outputFile", "ctrf-report.json"),
   outputDir |-> Option(config, "outputDir", "ctrf"),
   minimal |-> Option(config, "minimal", FALSE),
   screenshot |-> Option(config, "screenshot", FALSE),
   testType |-> Option(config, "testType", "e2e"),
   appName |-> Option(config, "appName", JsUndefined),
   appVersion |-> Option(config, "appVersion", JsUndefined),
   osPlatform |-> Option(config, "osPlatform", JsUndefined),
   osRelease |-> Option(config, "osRelease", JsUndefined),
   osVersion |-> Option(config, "osVersion", JsUndefined),
   buildName |-> Option(config, "buildName", JsUndefined),
   buildNumber |-> Option(config, "buildNumber", JsUndefined)]

EmptyObject == [k \in {} |-> JsUndefined]

\* obj.key, undefined when the key is absent
Get(obj, key) == IF key \in DOMAIN obj THEN obj[key] ELSE JsUndefined

InitialReport ==
  [results |->
     [tool |-> [name |-> "playwright"],
      summary |-> [tests |-> 0, passed |-> 0, failed |-> 0, pending |-> 0,
                   skipped |-> 0, other |-> 0, start |-> 0, stop |-> 0],
      tests |-> << >>]]

(* ----------------------- reporter: pure functions ---------------------- *)

\* mutant: the timedOut case label is missing
mapPlaywrightStatusToCtrf_NoTimedOut(testStatus) ==
  CASE testStatus = "passed" -> "passed"
    [] testStatus \in {"failed", "interrupted"} -> "failed"
    [] testStatus = "skipped" -> "skipped"
    [] testStatus = "pending" -> "pending"
    [] OTHER -> "other"

mapPlaywrightStatusToCtrf(testStatus) ==
  CASE testStatus = "passed" -> "passed"
    [] testStatus \in {"failed", "timedOut", "interrupted"} -> "failed"
    [] testStatus = "skipped" -> "skipped"
    [] testStatus = "pending" -> "pending"
    [] OTHER -> "other"

\* String.prototype.endsWith('.json') on the file names in use
EndsWithJson(filename) == filename \in {"ctrf-report.json", "custom.json"}

setFilename(options, filename) ==
  IF EndsWithJson(filename)
  THEN [options EXCEPT !.outputFile = filename]
  ELSE [options EXCEPT !.outputFile = filename \o ".json"]

RECURSIVE setEnvironmentDetails(_, _, _)
setEnvironmentDetails(environment, options, keys) ==
  IF keys = << >> THEN environment
  ELSE setEnvironmentDetails(
         IF options[Head(keys)] # JsUndefined
         THEN (Head(keys) :> options[Head(keys)]) @@ environment
         ELSE environment,
         options, Tail(keys))

hasEnvironmentDetails(environment) == Cardinality(DOMAIN environment) > 0

\* Math.floor(new Date(startTime).getTime() / 1000)
updateStart(startTime) == startTime \div 1000

calculateStopTime(startTime, duration) == (startTime + duration) \div 1000

\* title.match(/@\w+/g) ?? [] on the titles in use
extractTagsFromTitle(title) ==
  IF title = "login works @smoke @auth" THEN << "@smoke", "@auth" >>
  ELSE << >>

extractFailureDetails(testResult) ==
  IF testResult.status = "failed" /\ testResult.hasError
  THEN (IF testResult.error.message # JsUndefined
        THEN "message" :> testResult.error.message ELSE EmptyObject)
       @@ (IF testResult.error.stack # JsUndefined
           THEN "trace" :> testResult.error.stack ELSE EmptyObject)
  ELSE EmptyObject

IsScreenshot(attachment) ==
  /\ attachment.name = "screenshot"
  /\ attachment.contentType \in {"image/jpeg", "image/png"}

extractScreenshotBase64(testResult) ==
  LET i == FindIndex([j \in 1..Len(testResult.attachments) |->
                        IsScreenshot(testResult.attachments[j])])
  IN IF i # 0 /\ testResult.attachments[i].hasBody
     THEN Base64(testResult.attachments[i].body.bytes)
     ELSE JsUndefined

IsMetadata(attachment) == attachment.name = "metadata.json"

NullMetadata == [isNull |-> TRUE, name |-> JsUndefined,
                 version |-> JsUndefined, threw |-> FALSE]

\* the value extractMetadata returns; `threw` records that JSON.parse threw
\* and the catch block logged it
extractMetadata(testResult) ==
  LET i == FindIndex([j \in 1..Len(testResult.attachments) |->
                        IsMetadata(testResult.attachments[j])])
  IN IF i # 0 /\ testResult.attachments[i].hasBody
     THEN LET parsed == JSONParse(testResult.attachments[i].body.text)
          IN IF parsed.threw
             THEN [NullMetadata EXCEPT !.threw = TRUE]
             ELSE [isNull |-> FALSE, name |-> parsed.name,
                   version |-> parsed.version, threw |-> FALSE]
     ELSE NullMetadata

\* the test of lines 177-180: `?.name !== undefined || ?.version !== undefined`
HasBrowserMetadata(testResult) ==
  \/ extractMetadata(testResult).name # JsUndefined
  \/ extractMetadata(testResult).version # JsUndefined

\* what the calls of extractMetadata made for one record write to the console
MetadataConsole(testResult) ==
  IF extractMetadata(testResult).threw
  THEN << "Error parsing browser metadata", "Error parsing browser metadata" >>
  ELSE << >>

(* ------------------------ reporter: the suite tree --------------------- *)

Indexes(n) == [i \in 1..n |-> i]

\* suite.suites and suite.tests of suite s, as indexes in array order
ChildSuites(tree, s) ==
  SelectSeq(Indexes(Len(tree.suites)), LAMBDA i : tree.suites[i].parent = s)

OwnTests(tree, s) ==
  SelectSeq(Indexes(Len(tree.tests)), LAMBDA i : tree.tests[i].parent = s)

\* the test cases in the order processSuite hands them to processTest:
\* the suite's own tests, then each child suite in turn
RECURSIVE processSuite(_, _), processChildSuites(_, _)
processSuite(tree, s) ==
  OwnTests(tree, s) \o processChildSuites(tree, ChildSuites(tree, s))

processChildSuites(tree, children) ==
  IF children = << >> THEN << >>
  ELSE processSuite(tree, Head(children))
         \o processChildSuites(tree, Tail(children))

\* count starts at 0 and only ever adds the counts of the child suites
RECURSIVE countSuites(_, _), countChildSuites(_, _, _)
countSuites(tree, s) == countChildSuites(tree, ChildSuites(tree, s), 0)

countChildSuites(tree, children, count) ==
  IF children = << >> THEN count
  ELSE countChildSuites(tree, Tail(children),
                        count + countSuites(tree, Head(children)))

\* mutant: titles are pushed, not unshifted
RECURSIVE SuitePathComponents_Push(_, _, _)
SuitePathComponents_Push(tree, currentSuite, pathComponents) ==
  IF currentSuite = NoParent THEN pathComponents
  ELSE SuitePathComponents_Push(
         tree, tree.suites[currentSuite].parent,
         IF tree.suites[currentSuite].title # ""
         THEN pathComponents \o << tree.suites[currentSuite].title >>
         ELSE pathComponents)

\* the while loop of buildSuitePath: unshift every non-empty title on the
\* way from currentSuite up to the suite without a parent
RECURSIVE SuitePathComponents(_, _, _)
SuitePathComponents(tree, currentSuite, pathComponents) ==
  IF currentSuite = NoParent THEN pathComponents
  ELSE SuitePathComponents(
         tree, tree.suites[currentSuite].parent,
         IF tree.suites[currentSuite].title # ""
         THEN << tree.suites[currentSuite].title >> \o pathComponents
         ELSE pathComponents)

buildSuitePath(tree, testCase) ==
  Join(SuitePathComponents(tree, testCase.parent, << >>), " > ")

(* ----------------------- reporter: the test record --------------------- *)

MinimalFields(testCase, testResult) ==
  [name |-> testCase.title,
   status |-> mapPlaywrightStatusToCtrf(testResult.status),
   duration |-> testResult.duration]

ExtendedFields(options, tree, testCase, testResult) ==
  [start |-> updateStart(testResult.startTime),
   stop |-> calculateStopTime(testResult.startTime, testResult.duration),
   message |-> Get(extractFailureDetails(testResult), "message"),
   trace |-> Get(extractFailureDetails(testResult), "trace"),
   rawStatus |-> testResult.status,
   tags |-> extractTagsFromTitle(testCase.title),
   type |-> options.testType,
   filePath |-> testCase.file,
   retry |-> testResult.retry,
   flake |-> (testResult.status = "passed" /\ testResult.retry > 0),
   suite |-> buildSuitePath(tree, testCase)]

ScreenshotField(options, testResult) ==
  IF options.screenshot = TRUE
  THEN "screenshot" :> extractScreenshotBase64(testResult)
  ELSE EmptyObject

BrowserField(testResult) ==
  IF HasBrowserMetadata(testResult)
  THEN "browser" :> (TemplateString(extractMetadata(testResult).name) \o " "
                       \o TemplateString(extractMetadata(testResult).version))
  ELSE EmptyObject

\* mutant: the screenshot is attached outside the `minimal === false` block
CtrfTest_ScreenshotAlways(options, tree, testCase, testResult) ==
  IF options.minimal = FALSE
  THEN MinimalFields(testCase, testResult)
         @@ ExtendedFields(options, tree, testCase, testResult)
         @@ ScreenshotField(options, testResult)
         @@ BrowserField(testResult)
  ELSE MinimalFields(testCase, testResult)
         @@ ScreenshotField(options, testResult)

\* the CtrfTest that updateCtrfTestResultsFromTestResult pushes
CtrfTest(options, tree, testCase, testResult) ==
  IF options.minimal = FALSE
  THEN MinimalFields(testCase, testResult)
         @@ ExtendedFields(options, tree, testCase, testResult)
         @@ ScreenshotField(options, testResult)
         @@ BrowserField(testResult)
  ELSE MinimalFields(testCase, testResult)

\* mutant: the first attempt is taken instead of the last
LatestResult_First(testCase) == testCase.results[1]

\* testCase.results[testCase.results.length - 1], for a non-empty array
LatestResult(testCase) == testCase.results[Len(testCase.results)]

\* mutant: the total is not incremented
updateSummaryFromTestResult_NoTotal(summary, testResult) ==
  LET ctrfStatus == mapPlaywrightStatusToCtrf(testResult.status)
  IN IF ctrfStatus \in DOMAIN summary
     THEN [summary EXCEPT ![ctrfStatus] = @ + 1]
     ELSE [summary EXCEPT !.other = @ + 1]

updateSummaryFromTestResult(summary, testResult) ==
  LET counted == [summary EXCEPT !.tests = @ + 1]
      ctrfStatus == mapPlaywrightStatusToCtrf(testResult.status)
  IN IF ctrfStatus \in DOMAIN counted
     THEN [counted EXCEPT ![ctrfStatus] = @ + 1]
     ELSE [counted EXCEPT !.other = @ + 1]

\* JSON.stringify drops the keys whose value is undefined
OptionalStringKeys == {"message", "trace", "screenshot"}

StringifyTest(test) ==
  LET kept == { k \in DOMAIN test :
                  k \in OptionalStringKeys => test[k] # JsUndefined }
  IN [k \in kept |-> test[k]]

JSONStringify(report) ==
  [report EXCEPT !.results.tests =
     [i \in 1..Len(@) |-> StringifyTest(@[i])]]

(* ------------------------------- state --------------------------------- *)

VARIABLES
  pc,                     \* where the host and the reporter are
  reporterConfigOptions,  \* this.reporterConfigOptions
  ctrfReport,             \* this.ctrfReport
  ctrfEnvironment,        \* this.ctrfEnvironment
  suite,                  \* this.suite: << >> (undefined) or << tree >>
  pending,                \* test cases processSuite has still to process
  dirExists,              \* the output directory exists on disk
  file,                   \* << >> or << contents >> of the report file
  writes,                 \* writeFileSync calls made so far
  console                 \* lines written by console.log / console.error

vars == << pc, reporterConfigOptions, ctrfReport, ctrfEnvironment, suite,
           pending, dirExists, file, writes, console >>

Init ==
  /\ pc = "constructed"
  /\ \E config \in UserConfigs : reporterConfigOptions = Constructor(config)
  /\ ctrfReport = InitialReport
  /\ ctrfEnvironment = EmptyObject
  /\ suite = << >>
  /\ pending = << >>
  /\ dirExists = FALSE
  /\ file = << >>
  /\ writes = 0
  /\ console = << >>

(* ------------------------------ actions -------------------------------- *)

\* onBegin(_config, suite); mkdirSync may throw, after the suite and the
\* start time have been stored
onBegin ==
  /\ pc = "constructed"
  /\ \E tree \in SuiteTrees, mkdirThrows \in BOOLEAN :
       LET started == [ctrfReport EXCEPT !.results.summary.start = 1000]
           environment == setEnvironmentDetails(
                            ctrfEnvironment, reporterConfigOptions,
                            EnvironmentKeys)
       IN /\ suite' = << tree >>
          /\ IF ~dirExists /\ mkdirThrows
             THEN /\ pc' = "threw"
                  /\ ctrfReport' = started
                  /\ UNCHANGED << reporterConfigOptions, ctrfEnvironment,
                                  dirExists >>
             ELSE /\ pc' = "begun"
                  /\ dirExists' = TRUE
                  /\ ctrfEnvironment' = environment
                  /\ ctrfReport' =
                       IF hasEnvironmentDetails(environment)
                       THEN [started EXCEPT !.results =
                               @ @@ ("environment" :> environment)]
                       ELSE started
                  /\ reporterConfigOptions' =
                       setFilename(reporterConfigOptions,
                                   reporterConfigOptions.outputFile)
  /\ UNCHANGED << pending, file, writes, console >>

\* onEnd up to the call of processSuite (lines 110-113)
onEnd ==
  /\ pc \in {"constructed", "begun"}
  /\ ctrfReport' = [ctrfReport EXCEPT !.results.summary.stop = 9000]
  /\ IF suite # << >>
     THEN /\ pending' = processSuite(suite[1], 1)
          /\ pc' = "processSuite"
     ELSE /\ pc' = "writeReportToFile"
          /\ UNCHANGED pending
  /\ UNCHANGED << reporterConfigOptions, ctrfEnvironment, suite, dirExists,
                  file, writes, console >>

\* processTest(testCase): reading `.status` of the last element of an empty
\* results array throws a TypeError, which leaves onEnd
processTest ==
  /\ pc = "processSuite"
  /\ pending # << >>
  /\ LET tree == suite[1]
         testCase == tree.tests[Head(pending)]
     IN IF testCase.results = << >>
        THEN /\ pc' = "threw"
             /\ UNCHANGED << ctrfReport, pending, console >>
        ELSE LET latestResult == LatestResult(testCase)
             IN /\ ctrfReport' =
                     [ctrfReport EXCEPT
                        !.results.tests =
                           Append(@, CtrfTest(reporterConfigOptions, tree,
                                              testCase, latestResult)),
                        !.results.summary =
                           updateSummaryFromTestResult(@, latestResult)]
                /\ console' =
                     IF reporterConfigOptions.minimal = FALSE
                     THEN console \o MetadataConsole(latestResult)
                     ELSE console
                /\ pending' = Tail(pending)
                /\ UNCHANGED pc
  /\ UNCHANGED << reporterConfigOptions, ctrfEnvironment, suite, dirExists,
                  file, writes >>

\* onEnd line 115, once processSuite has returned
finishTraversal ==
  /\ pc = "processSuite"
  /\ pending = << >>
  /\ ctrfReport' =
       [ctrfReport EXCEPT !.results.summary =
          ("suites" :> countSuites(suite[1], 1)) @@ @]
  /\ pc' = "writeReportToFile"
  /\ UNCHANGED << reporterConfigOptions, ctrfEnvironment, suite, pending,
                  dirExists, file, writes, console >>

\* mutant: writeFileSync is called outside the try block
writeReportToFile_NoCatch ==
  /\ pc = "writeReportToFile"
  /\ writes' = writes + 1
  /\ \E writeThrows \in BOOLEAN :
       IF writeThrows \/ ~dirExists
       THEN /\ pc' = "threw"
            /\ UNCHANGED << file, console >>
       ELSE /\ file' = << JSONStringify(ctrfReport) >>
            /\ console' = Append(console, "successfully written ctrf json")
            /\ pc' = "returned"
  /\ UNCHANGED << reporterConfigOptions, ctrfReport, ctrfEnvironment, suite,
                  pending, dirExists >>

\* writeReportToFile(this.ctrfReport): writeFileSync either succeeds or
\* throws (it always throws when the directory is missing); the catch block
\* logs the error and onEnd returns
writeReportToFile ==
  /\ pc = "writeReportToFile"
  /\ writes' = writes + 1
  /\ \E writeThrows \in BOOLEAN :
       IF writeThrows \/ ~dirExists
       THEN /\ console' = Append(console, "Error writing ctrf json report")
            /\ UNCHANGED file
       ELSE /\ file' = << JSONStringify(ctrfReport) >>
            /\ console' = Append(console, "successfully written ctrf json")
  /\ pc' = "returned"
  /\ UNCHANGED << reporterConfigOptions, ctrfReport, ctrfEnvironment, suite,
                  pending, dirExists >>

Next ==
  \/ onBegin
  \/ onEnd
  \/ processTest
  \/ finishTraversal
  \/ writeReportToFile

Spec == Init /\ [][Next]_vars

(* ------------------------ vocabulary of the claims --------------------- *)

Tree == suite[1]
Summary == ctrfReport.results.summary
Records == ctrfReport.results.tests

\* onEnd has finished the traversal and the suite count of a captured tree
TraversalDone == suite # << >> /\ pc \in {"writeReportToFile", "returned"}

CasesOf(tree) == { tree.tests[i] : i \in 1..Len(tree.tests) }

\* test titles are unique in a tree, so a record names its test case
CaseOf(record) == CHOOSE t \in CasesOf(Tree) : t.title = record.name

FinalAttempt(testCase) == testCase.results[Len(testCase.results)]

RecordsOf(testCase) ==
  { i \in 1..Len(Records) : Records[i].name = testCase.title }

\* the mapping table of the specification
NormalizedStatus(hostStatus) ==
  IF hostStatus = "passed" THEN "passed"
  ELSE IF hostStatus \in {"failed", "timedOut", "interrupted"} THEN "failed"
  ELSE IF hostStatus = "skipped" THEN "skipped"
  ELSE IF hostStatus = "pending" THEN "pending"
  ELSE "other"

Omitted(record, key) == Get(record, key) = JsUndefined

(* --------------------------------- C1 ---------------------------------- *)

C2_NestedSuiteCount ==
  TraversalDone => Summary.suites = Len(Tree.suites) - 1

(* --------------------------------- C3 ---------------------------------- *)

\* C3: the status of every emitted record is the specification's mapping
\* (passed -> passed; failed, timedOut, interrupted -> failed; skipped ->
\* skipped; pending -> pending; anything else -> other) of the host status
\* of the last attempt of its test case.
C3_StatusMapping ==
  \A i \in 1..Len(Records) :
    Records[i].status =
      NormalizedStatus(FinalAttempt(CaseOf(Records[i])).status)

C3_Witness ==
  /\ Len(Records) = 2
  /\ FinalAttempt(CaseOf(Records[1])).status = "timedOut"
  /\ Records[1].status = "failed"
  /\ FinalAttempt(CaseOf(Records[2])).status = "flaky"
  /\ Records[2].status = "other"

(* --------------------------------- C4 ---------------------------------- *)

C5_FailureDetails ==
  reporterConfigOptions.minimal = FALSE =>
    \A i \in 1..Len(Records) :
      LET last == FinalAttempt(CaseOf(Records[i]))
      IN Records[i].status = "failed" =>
           IF last.hasError
           THEN /\ Get(Records[i], "message") = last.error.message
                /\ Get(Records[i], "trace") = last.error.stack
           ELSE /\ Omitted(Records[i], "message")
                /\ Omitted(Records[i], "trace")

(* --------------------------------- C6 ---------------------------------- *)

LastScreenshotIndex(attachments) ==
  CHOOSE i \in 1..Len(attachments) :
    /\ IsScreenshot(attachments[i])
    /\ \A j \in (i + 1)..Len(attachments) : ~IsScreenshot(attachments[j])

\* C6: in non-minimal mode with screenshots enabled, a record's screenshot
\* is the base64 encoding of the last attachment named "screenshot" with
\* content type image/jpeg or image/png, and is omitted when there is none.
C6_LastScreenshot ==
  (reporterConfigOptions.minimal = FALSE
     /\ reporterConfigOptions.screenshot = TRUE) =>
    \A i \in 1..Len(Records) :
      LET attachments == FinalAttempt(CaseOf(Records[i])).attachments
      IN IF \E j \in 1..Len(attachments) : IsScreenshot(attachments[j])
         THEN LET shot == attachments[LastScreenshotIndex(attachments)]
              IN Get(Records[i], "screenshot") =
                   IF shot.hasBody THEN Base64(shot.body.bytes)
                   ELSE JsUndefined
         ELSE Omitted(Records[i], "screenshot")

(* --------------------------------- C7 ---------------------------------- *)

\* C7: in minimal mode every record has exactly the keys name, status and
\* duration.
C7_MinimalKeys ==
  reporterConfigOptions.minimal = TRUE =>
    \A i \in 1..Len(Records) :
      DOMAIN Records[i] = {"name", "status", "duration"}

C7_Witness ==
  /\ reporterConfigOptions.minimal = TRUE
  /\ reporterConfigOptions.screenshot = TRUE
  /\ reporterConfigOptions.testType = "unit"
  /\ Len(Records) = 1
  /\ LET attachments == FinalAttempt(CaseOf(Records[1])).attachments
     IN /\ Len(attachments) = 2
        /\ IsScreenshot(attachments[1]) /\ attachments[1].hasBody
        /\ attachments[2] = Metadata(MetaFull)

(* --------------------------------- C8 ---------------------------------- *)

IsValue(v) == v \notin {JsUndefined, JsNull}

\* C8: in non-minimal mode a record has a browser field only when its last
\* attempt has a metadata.json attachment whose body parses as JSON with
\* non-null name and version, and the field is then "<name> <version>".
C8_BrowserOnlyFromNameAndVersion ==
  reporterConfigOptions.minimal = FALSE =>
    \A i \in 1..Len(Records) :
      "browser" \in DOMAIN Records[i] =>
        \E a \in { FinalAttempt(CaseOf(Records[i])).attachments[j] :
                   j \in 1..Len(FinalAttempt(CaseOf(Records[i])).attachments) } :
          /\ IsMetadata(a)
          /\ a.hasBody
          /\ ~JSONParse(a.body.text).threw
          /\ IsValue(JSONParse(a.body.text).name)
          /\ IsValue(JSONParse(a.body.text).version)
          /\ Records[i].browser =
               JSONParse(a.body.text).name \o " "
                 \o JSONParse(a.body.text).version

(* --------------------------------- C9 ---------------------------------- *)

\* C9: writeFileSync is called at most once, only after the traversal and
\* the suite count of a captured tree are complete; whether or not it
\* throws, onEnd then returns (it never ends by throwing after the call),
\* and a failed write is logged and leaves no file.
C9_WriteFailureIsCaught ==
  /\ writes \in {0, 1}
  /\ writes = 1 <=> pc = "returned"
  /\ (writes = 1 /\ suite # << >>) =>
       /\ pending = << >>
       /\ "suites" \in DOMAIN Summary
       /\ Len(Records) = Len(Tree.tests)
  /\ (writes = 1 /\ file = << >>) =>
       console[Len(console)] = "Error writing ctrf json report"

C9_Witness ==
  /\ pc = "returned"
  /\ dirExists
  /\ file = << >>
  /\ Len(Records) = 2
  /\ console[Len(console)] = "Error writing ctrf json report"

(* --------------------------------- C10 --------------------------------- *)

\* the suites from the root down to suite s
RECURSIVE AncestorsAndSelf(_, _)
AncestorsAndSelf(tree, s) ==
  IF s = NoParent THEN {}
  ELSE {s} \cup AncestorsAndSelf(tree, tree.suites[s].parent)

\* a parent has a smaller index than its children, so index order on a
\* chain of ancestors is outermost to innermost
TitledAncestors(tree, testCase) ==
  SelectSeq(Indexes(Len(tree.suites)),
            LAMBDA s : /\ s \in AncestorsAndSelf(tree, testCase.parent)
                       /\ tree.suites[s].title # "")

RECURSIVE ArrowPath(_, _)
ArrowPath(tree, chain) ==
  IF chain = << >> THEN ""
  ELSE IF Len(chain) = 1 THEN tree.suites[chain[1]].title
  ELSE ArrowPath(tree, SubSeq(chain, 1, Len(chain) - 1))
         \o " > " \o tree.suites[chain[Len(chain)]].title

\* C10: in non-minimal mode a record's suite is the non-empty titles of the
\* test's ancestor suites, root first and immediate parent last, joined by
\* " > " (the empty string when every ancestor has an empty title).
C10_SuitePath ==
  reporterConfigOptions.minimal = FALSE =>
    \A i \in 1..Len(Records) :
      Records[i].suite =
        ArrowPath(Tree, TitledAncestors(Tree, CaseOf(Records[i])))

C10_Witness ==
  /\ suite # << >>
  /\ reporterConfigOptions.minimal = FALSE
  /\ Len(Tree.suites) = 3
  /\ Tree.suites[1].title = "A"
  /\ Tree.suites[2] = [title |-> "", parent |-> 1]
  /\ Tree.suites[3] = [title |-> "B", parent |-> 2]
  /\ Len(Records) = 1
  /\ CaseOf(Records[1]).parent = 3
  /\ Records[1].suite = "A > B"

(* --------------------------------- C11 --------------------------------- *)

\* onEnd has been called on a captured tree (it has stored the stop time)
OnEndEntered == suite # << >> /\ Summary.stop # 0

\* C11: on every captured suite tree, including one with a test case that
\* has no recorded attempts, onEnd never ends by throwing: it is still
\* traversing, or it has reached the suite count and the file write.
C11_OnEndNeverThrows ==
  OnEndEntered => pc \in {"processSuite", "writeReportToFile", "returned"}

====
